---- MODULE Spec2Model ----
(***************************************************************************)
(* Model of www2csv/sql.py: the SQLTarget writer.  One writer object, its  *)
(* configuration fixed by __init__, used through scoped sessions           *)
(* (__enter__ ... write* ... __exit__).  The connection, the cursor and    *)
(* the driver module are external: each execute / commit call has an       *)
(* outcome chosen by the environment.                                      *)
(***************************************************************************)
EXTENDS Integers, Sequences, FiniteSets, TLC

\* ---------------------------------------------------------------- bounds
MaxCommit == 2      \* largest commit threshold explored
MaxWidth == 1       \* widest row explored
MaxWrites == 3      \* write calls per session

\* ------------------------------------------------------- python values
\* Python's None, and a value that is not None.
None == [none |-> TRUE]
Some(v) == [val |-> v]

\* Kinds of column value: a plain int, an IPv4Address/IPv6Address, a Url,
\* and a value whose type is not a key of type_map (NoneType).
Kinds == {"int", "ip", "url", "none"}
MappedKinds == {"int", "ip", "url"}

RECURSIVE SeqsUpTo(_, _)
SeqsUpTo(S, n) ==
    IF n = 0 THEN {<<>>}
    ELSE LET shorter == SeqsUpTo(S, n - 1)
         IN  shorter \cup {Append(s, x) : s \in {t \in shorter : Len(t) = n - 1}, x \in S}

\* A row: a tuple of values; named = it is a namedtuple (has _fields).
Rows == [named : BOOLEAN, vals : SeqsUpTo(Kinds, MaxWidth)]

\* len(row)
RowLen(row) == Len(row.vals)

\* Truth value of self._first_row: None and the empty tuple are false.
Truthy(fr) == fr # None /\ RowLen(fr.val) # 0

\* ---------------------------------------------------------- text pieces
\* Text is a sequence of tokens; concatenation is \o.
Digits == <<"0", "1", "2", "3", "4", "5", "6", "7", "8", "9">>

\* '%d' % n
Dec(n) == IF n < 10 THEN <<Digits[n + 1]>> ELSE <<Digits[(n \div 10) + 1], Digits[(n % 10) + 1]>>

\* row._fields of a namedtuple: its own column names.
OwnFields == <<"a", "b", "c", "d">>

\* row._fields if hasattr(row, '_fields') else ['field%d' % (j + 1) ...]
FieldNames(row) ==
    [i \in 1..RowLen(row) |->
        IF row.named THEN <<OwnFields[i]>> ELSE <<"field">> \o Dec((i - 1) + 1)]

RECURSIVE Join(_, _)
\* sep.join(parts)
Join(parts, sep) ==
    IF Len(parts) = 0 THEN <<>>
    ELSE IF Len(parts) = 1 THEN parts[1]
    ELSE parts[1] \o sep \o Join(Tail(parts), sep)

\* The five paramstyles of PEP-249 the code renders.
ParamStyles == {"qmark", "numeric", "named", "format", "pyformat"}

\* What db_module.paramstyle may declare (one value outside the five).
DriverStyles == ParamStyles \cup {"other"}

\* The styles of the session model: one the code renders, one it does not.
SessionStyles == {"qmark", "other"}

\* The dict of line 189-195 indexed by paramstyle; i is enumerate's index.
Placeholder(style, i, name) ==
    CASE style = "qmark"    -> <<"?">>
      [] style = "numeric"  -> <<":">> \o Dec(i)
      [] style = "named"    -> <<":">> \o name
      [] style = "format"   -> <<"%s">>
      [] style = "pyformat" -> <<"%(">> \o name \o <<")s">>

\* The INSERT text of lines 187-201.
InsertText(style, row) ==
    LET names == FieldNames(row)
        ph == [k \in 1..RowLen(row) |-> Placeholder(style, k - 1, names[k])]
    IN  <<"INSERT INTO ", "t", " VALUES (">> \o Join(ph, <<", ">>) \o <<")">>

\* The dict lookup raises KeyError only when the comprehension has an
\* element to render.
StatementKeyError(style, row) == style \notin ParamStyles /\ RowLen(row) > 0

\* --------------------------------------------------------- column types
Lower == <<"a", "b", "c", "d", "e", "f", "g", "h", "i", "j", "k", "l", "m",
           "n", "o", "p", "q", "r", "s", "t", "u", "v", "w", "x", "y", "z">>
Upper == <<"A", "B", "C", "D", "E", "F", "G", "H", "I", "J", "K", "L", "M",
           "N", "O", "P", "Q", "R", "S", "T", "U", "V", "W", "X", "Y", "Z">>

\* str.upper(), character by character
UpperText(s) ==
    [k \in 1..Len(s) |->
        IF \E j \in 1..26 : Lower[j] = s[k]
        THEN Upper[CHOOSE j \in 1..26 : Lower[j] = s[k]]
        ELSE s[k]]

\* str.startswith
StartsWith(s, p) == Len(s) >= Len(p) /\ SubSeq(s, 1, Len(p)) = p

\* Values of the ip_type argument explored: the default and an integer type
\* written in lower case.
IpTypes == { <<"V", "A", "R", "C", "H", "A", "R", "(", "5", "3", ")">>,
             <<"i", "n", "t", "e", "g", "e", "r">> }

\* IpCast comparing the column type as written, without upper-casing it.
IpCastCaseSensitive(iptype) ==
    IF StartsWith(iptype, <<"I", "N", "T">>) THEN "int" ELSE "str"

\* lines 208-211: the cast chosen for IP addresses
IpCast(iptype) ==
    IF StartsWith(UpperText(iptype), <<"I", "N", "T">>) THEN "int" ELSE "str"

\* lines 212-217: one cast (or None) per column of the first row
RowCasts(iptype, row) ==
    [k \in 1..RowLen(row) |->
        IF row.vals[k] = "ip" THEN IpCast(iptype)
        ELSE IF row.vals[k] = "url" THEN "str"
        ELSE "None"]

\* cast(value) raises TypeError: int() of a Url or of None.
CastRaises(cast, kind) == cast = "int" /\ kind \notin {"ip", "int"}

\* cast(value) if cast else value
Bound(cast, kind) ==
    IF cast = "None" THEN <<kind>> ELSE <<cast, kind>>

Min(a, b) == IF a < b THEN a ELSE b

\* lines 238-241: zip stops at the shorter of the two lists
Params(casts, row) ==
    [k \in 1..Min(Len(casts), RowLen(row)) |-> Bound(casts[k], row.vals[k])]

ParamsRaise(casts, row) ==
    \E k \in 1..Min(Len(casts), RowLen(row)) : CastRaises(casts[k], row.vals[k])

\* A type map with an entry for every type.
TypeMapComplete(row) == FALSE

\* line 147: type_map[type(value)] for every column
TypeMapKeyError(row) == \E k \in 1..RowLen(row) : row.vals[k] \notin MappedKinds

\* ------------------------------------------------------------- state
VARIABLES
    \* configuration, fixed by __init__
    paramstyle,          \* db_module.paramstyle
    commit,              \* self.commit
    create_table,        \* self.create_table
    drop_table,          \* self.drop_table
    ignore_drop_errors,  \* self.ignore_drop_errors
    ip_type,             \* self.type_map[IPv4Address]
    \* session state of the writer
    _first_row,          \* self._first_row
    _row_casts,          \* self._row_casts
    _cursor,             \* self._cursor
    _insert,             \* self._insert
    _counter,            \* self._counter
    \* observation of the calls made on the cursor and the connection
    log,                 \* events of the last call, in order
    last,                \* the last call: its name, how it ended, len(row);
                         \* after: for __exit__, how the call before it
                         \* ended; for __enter__, the call before it; for the
                         \* first write of a session, the call before the
                         \* __enter__
    n_writes,            \* write calls of the session
    n_attempted,         \* INSERTs of the session accepted or driver-rejected
    n_commits,           \* connection.commit() calls of the session
    n_ddl,               \* DROP/CREATE executions of the session that succeeded
    params,              \* what the last INSERT was executed with, when the
                         \* model observes it; None otherwise
    since_commit         \* INSERTs executed since connection.commit() was
                         \* last called in the session

config == <<paramstyle, commit, create_table, drop_table, ignore_drop_errors, ip_type>>
writer == <<_first_row, _row_casts, _cursor, _insert, _counter>>
observed == <<log, last, n_writes, n_attempted, n_commits, n_ddl, params,
              since_commit>>
vars == <<config, writer, observed>>

\* Outcome of cursor.execute and of connection.commit: the call returns, or
\* it raises db_module.Error.
Outcomes == {"ok", "Error"}

CommitEvents == {"commit:ok", "commit:Error"}
DropEvents == {"drop:ok", "drop:Error"}
CreateEvents == {"create:ok", "create:Error", "create:KeyError"}
InsertEvents == {"insert:ok", "insert:Error"}

\* Number of events of a log that belong to a set.
Count(lg, S) == Cardinality({k \in 1..Len(lg) : lg[k] \in S})

\* Position of the last event of lg that belongs to S, 0 when there is none.
LastPos(lg, S) ==
    IF \A k \in 1..Len(lg) : lg[k] \notin S THEN 0
    ELSE CHOOSE k \in 1..Len(lg) : lg[k] \in S /\ \A j \in (k + 1)..Len(lg) : lg[j] \notin S

\* A tally of the events adds that the events resets bring back to 0, after
\* a call that logged lg.
Tally(before, lg, resets, adds) ==
    IF LastPos(lg, resets) = 0 THEN before + Count(lg, adds)
    ELSE Count(SubSeq(lg, LastPos(lg, resets) + 1, Len(lg)), adds)

\* ------------------------------------------------------ the write call
\* The call in progress: st is "run" or the exception that ended it.
Start ==
    [st |-> "run", first |-> FALSE, first_row |-> _first_row, insert |-> _insert,
     row_casts |-> _row_casts, counter |-> _counter, log |-> <<>>]

Emit(c, ev) == [c EXCEPT !.log = Append(@, ev)]
Raise(c, exc, ev) == [c EXCEPT !.st = exc, !.log = Append(@, ev)]

\* connection.commit()
DoCommit(c, oc) ==
    IF oc = "ok" THEN Emit(c, "commit:ok") ELSE Raise(c, "Error", "commit:Error")

\* lines 220-225: the width check, or the row becomes the first row
CheckWidth(c, row) ==
    IF Truthy(c.first_row)
    THEN IF RowLen(row) # RowLen(c.first_row.val)
         THEN Raise(c, "TypeError", "shape:TypeError")
         ELSE c
    ELSE [c EXCEPT !.first = TRUE, !.first_row = Some(row), !.log = Append(@, "first")]

\* lines 168-217
GenerateStatement(c, row) ==
    IF StatementKeyError(paramstyle, row)
    THEN Raise(c, "KeyError", "generate:KeyError")
    ELSE [c EXCEPT !.insert = Some(InsertText(paramstyle, row)),
                   !.row_casts = Some(RowCasts(ip_type, row)),
                   !.log = Append(@, "generate")]

\* A _drop_table that leaves the DROP uncommitted.
DropTableNoCommit(c, od, oc) ==
    IF od = "ok" THEN Emit(c, "drop:ok") ELSE Raise(c, "Error", "drop:Error")

\* lines 160-166
DropTable(c, od, oc) ==
    IF od = "ok" THEN DoCommit(Emit(c, "drop:ok"), oc)
    ELSE Raise(c, "Error", "drop:Error")

\* An except clause that swallows the drop error whatever the flag says.
DropAlwaysSwallowed(c, od, oc) ==
    LET r == DropTable(c, od, oc)
    IN  IF r.st = "Error" THEN [r EXCEPT !.st = "run"] ELSE r

\* lines 228-233: the except clause around _drop_table
DropGuarded(c, od, oc) ==
    LET r == DropTable(c, od, oc)
    IN  IF r.st = "Error" /\ ignore_drop_errors THEN [r EXCEPT !.st = "run"] ELSE r

\* A _create_table whose error is swallowed as a drop error may be.
CreateTableSwallowed(c, row, ocr, oc) ==
    IF TypeMapKeyError(row) THEN Raise(c, "KeyError", "create:KeyError")
    ELSE IF ocr = "ok" THEN DoCommit(Emit(c, "create:ok"), oc)
    ELSE Emit(c, "create:Error")

\* lines 140-158
CreateTable(c, row, ocr, oc) ==
    IF TypeMapKeyError(row) THEN Raise(c, "KeyError", "create:KeyError")
    ELSE IF ocr = "ok" THEN DoCommit(Emit(c, "create:ok"), oc)
    ELSE Raise(c, "Error", "create:Error")

\* lines 226-235: first-row handling after the row is stored
FirstRow(c, row, od, odc, ocr, ocrc) ==
    LET g == GenerateStatement(c, row)
        d == IF g.st = "run" /\ drop_table THEN DropGuarded(g, od, odc) ELSE g
    IN  IF d.st = "run" /\ create_table THEN CreateTable(d, row, ocr, ocrc) ELSE d

\* A threshold test without the modulus.
CommitDueFromThreshold(n) == n >= commit

\* A commit that comes one row late.
CommitDueLate(n) == n % (commit + 1) = 0

\* line 248
CommitDue(n) == n % commit = 0

\* An INSERT without the except clause.
CaughtNothing(exc) == FALSE

\* line 244: the exceptions the except clause around the INSERT catches
Caught(exc) == exc = "Error"

\* A write that forgets to count the row.
NotCounted(n) == n

\* line 247
Counted(n) == n + 1

\* A write that executes the INSERT a second time when the driver rejected
\* the row.
InsertRowRetry(c, row, oi, oic) ==
    IF c.row_casts = None THEN Raise(c, "TypeError", "params:TypeError")
    ELSE IF ParamsRaise(c.row_casts.val, row) THEN Raise(c, "TypeError", "params:TypeError")
    ELSE LET e == IF oi = "ok" THEN Emit(c, "insert:ok")
                  ELSE Emit(Emit(Emit(c, "insert:Error"), "warn"), "insert:ok")
             n == [e EXCEPT !.counter = Counted(@)]
         IN  IF CommitDue(n.counter) THEN DoCommit(n, oic) ELSE n

\* lines 237-250: bind, execute, count, commit
InsertRow(c, row, oi, oic) ==
    IF c.row_casts = None THEN Raise(c, "TypeError", "params:TypeError")
    ELSE IF ParamsRaise(c.row_casts.val, row) THEN Raise(c, "TypeError", "params:TypeError")
    ELSE LET e == IF oi = "ok" THEN Emit(c, "insert:ok")
                  ELSE IF Caught(oi) THEN Emit(Emit(c, "insert:Error"), "warn")
                  ELSE Raise(c, oi, "insert:Error")
         IN  IF e.st # "run" THEN e
             ELSE LET n == [e EXCEPT !.counter = Counted(@)]
                  IN  IF CommitDue(n.counter) THEN DoCommit(n, oic) ELSE n

\* lines 219-250
WriteCall(row, od, odc, ocr, ocrc, oi, oic) ==
    LET w == CheckWidth(Start, row)
        f == IF w.st = "run" /\ w.first THEN FirstRow(w, row, od, odc, ocr, ocrc) ELSE w
    IN  IF f.st = "run" THEN InsertRow(f, row, oi, oic) ELSE f

\* ------------------------------------------------------------- actions
\* The writer as __init__ leaves it (lines 88-120).  ignore_drop_errors is
\* read only on the drop path: without drop_table it keeps its default.
Init ==
    /\ paramstyle \in SessionStyles
    /\ commit \in 1..MaxCommit
    /\ create_table \in BOOLEAN
    /\ drop_table \in BOOLEAN
    /\ ignore_drop_errors \in (IF drop_table THEN BOOLEAN ELSE {TRUE})
    /\ ip_type \in IpTypes
    /\ _first_row = None
    /\ _row_casts = None
    /\ _cursor = None
    /\ _insert = None
    /\ _counter = 0
    /\ log = <<>>
    /\ last = [op |-> "init", st |-> "run", width |-> 0, after |-> "-"]
    /\ n_writes = 0
    /\ n_attempted = 0
    /\ n_commits = 0
    /\ n_ddl = 0
    /\ params = None
    /\ since_commit = 0

\* lines 122-126: a scope is entered, for the first time or again
Enter ==
    /\ _cursor = None
    /\ _cursor' = Some("cursor")
    /\ log' = <<"cursor">>
    /\ last' = [op |-> "enter", st |-> "run", width |-> 0, after |-> last.op]
    /\ n_writes' = 0
    /\ n_attempted' = 0
    /\ n_commits' = 0
    /\ n_ddl' = 0
    /\ params' = None
    /\ since_commit' = 0
    /\ UNCHANGED <<config, _first_row, _row_casts, _insert, _counter>>

\* lines 219-250, called inside the scope with a row drawn from rows, each
\* call on the backend ending in one of outs; observe: the parameters of the
\* INSERT are recorded.
WriteWith(rows, outs, observe) ==
    /\ _cursor # None
    /\ n_writes < MaxWrites
    /\ \E row \in rows :
       LET handling == ~Truthy(_first_row)
           dropping == handling /\ drop_table
           creating == handling /\ create_table
       IN
       \E od \in (IF dropping THEN outs ELSE {"ok"}) :
       \E odc \in (IF dropping /\ od = "ok" THEN outs ELSE {"ok"}) :
       \E ocr \in (IF creating THEN outs ELSE {"ok"}) :
       \E ocrc \in (IF creating /\ ocr = "ok" THEN outs ELSE {"ok"}) :
       \E oi \in outs :
       \E oic \in outs :
       \E c \in {WriteCall(row, od, odc, ocr, ocrc, oi, oic)} :
              /\ _first_row' = c.first_row
              /\ _row_casts' = c.row_casts
              /\ _insert' = c.insert
              /\ _counter' = c.counter
              /\ log' = c.log
              /\ last' = [op |-> "write", st |-> c.st, width |-> RowLen(row),
                          after |-> IF last.op = "enter" THEN last.after ELSE "-"]
              /\ n_writes' = n_writes + 1
              /\ n_attempted' = n_attempted + Count(c.log, InsertEvents)
              /\ n_commits' = n_commits + Count(c.log, CommitEvents)
              /\ n_ddl' = n_ddl + Count(c.log, {"drop:ok", "create:ok"})
              /\ params' = IF observe /\ Count(c.log, InsertEvents) > 0
                           THEN Some(Params(c.row_casts.val, row))
                           ELSE None
              /\ since_commit' = Tally(since_commit, c.log, CommitEvents, InsertEvents)
    /\ UNCHANGED <<config, _cursor>>

\* The write of the session model: the backend may reject any statement and
\* any commit.
WriteFrom(rows) == WriteWith(rows, Outcomes, FALSE)

\* Rows of the session model: unnamed tuples of IP addresses and of values
\* that type_map does not know, of every width up to MaxWidth.
SessionRows == {r \in Rows : ~r.named /\ \A k \in 1..RowLen(r) : r.vals[k] \in {"ip", "none"}}

Write == WriteFrom(SessionRows)

\* An __exit__ that skips the final commit when the last row already ended
\* a batch.
ExitSkipsCommit ==
    /\ _cursor # None
    /\ \E oc \in Outcomes :
          /\ log' = IF _counter > 0 /\ _counter % commit = 0 THEN <<"close">>
                    ELSE <<"close", IF oc = "ok" THEN "commit:ok" ELSE "commit:Error">>
          /\ last' = [op |-> "exit", st |-> IF oc = "ok" THEN "run" ELSE "Error",
                       width |-> 0, after |-> last.st]
    /\ _cursor' = None
    /\ _first_row' = None
    /\ _row_casts' = None
    /\ _insert' = None
    /\ _counter' = 0
    /\ n_commits' = n_commits + (IF _counter > 0 /\ _counter % commit = 0 THEN 0 ELSE 1)
    /\ params' = None
    /\ since_commit' = Tally(since_commit, log', CommitEvents, InsertEvents)
    /\ UNCHANGED <<config, n_writes, n_attempted, n_ddl>>

\* An __exit__ that commits first and releases the cursor afterwards.
ExitCommitFirst ==
    /\ _cursor # None
    /\ \E oc \in Outcomes :
          IF oc = "ok"
          THEN /\ log' = <<"commit:ok", "close">>
               /\ last' = [op |-> "exit", st |-> "run", width |-> 0, after |-> last.st]
               /\ _cursor' = None
               /\ _first_row' = None
               /\ _row_casts' = None
               /\ _insert' = None
               /\ _counter' = 0
          ELSE /\ log' = <<"commit:Error">>
               /\ last' = [op |-> "exit", st |-> "Error", width |-> 0, after |-> last.st]
               /\ UNCHANGED writer
    /\ n_commits' = n_commits + 1
    /\ params' = None
    /\ since_commit' = Tally(since_commit, log', CommitEvents, InsertEvents)
    /\ UNCHANGED <<config, n_writes, n_attempted, n_ddl>>

\* An __exit__ that forgets to clear the first row.
ExitKeepsFirstRow ==
    /\ _cursor # None
    /\ \E oc \in Outcomes :
          /\ log' = <<"close", IF oc = "ok" THEN "commit:ok" ELSE "commit:Error">>
          /\ last' = [op |-> "exit", st |-> IF oc = "ok" THEN "run" ELSE "Error",
                       width |-> 0, after |-> last.st]
    /\ _cursor' = None
    /\ _row_casts' = None
    /\ _insert' = None
    /\ _counter' = 0
    /\ n_commits' = n_commits + 1
    /\ params' = None
    /\ since_commit' = Tally(since_commit, log', CommitEvents, InsertEvents)
    /\ UNCHANGED <<config, _first_row, n_writes, n_attempted, n_ddl>>

\* lines 128-138
Exit ==
    /\ _cursor # None
    /\ \E oc \in Outcomes :
          /\ log' = <<"close", IF oc = "ok" THEN "commit:ok" ELSE "commit:Error">>
          /\ last' = [op |-> "exit", st |-> IF oc = "ok" THEN "run" ELSE "Error",
                       width |-> 0, after |-> last.st]
    /\ _cursor' = None
    /\ _first_row' = None
    /\ _row_casts' = None
    /\ _insert' = None
    /\ _counter' = 0
    /\ n_commits' = n_commits + 1
    /\ params' = None
    /\ since_commit' = Tally(since_commit, log', CommitEvents, InsertEvents)
    /\ UNCHANGED <<config, n_writes, n_attempted, n_ddl>>

Next == Enter \/ Write \/ Exit

Spec == Init /\ [][Next]_vars

\* ------------------------------------------------- the data of a session
\* column types an application may give for IP addresses (ip_type, line 71)
DataIpTypes == IpTypes \cup { <<"I", "N", "T">>, <<"B", "I", "G", "I", "N", "T">> }

\* A writer that neither drops nor creates the table (the defaults of lines
\* 69-70), over every binding style a driver may declare.
InitData ==
    /\ paramstyle \in DriverStyles
    /\ commit = MaxCommit
    /\ create_table = FALSE
    /\ drop_table = FALSE
    /\ ignore_drop_errors = TRUE
    /\ ip_type \in DataIpTypes
    /\ _first_row = None
    /\ _row_casts = None
    /\ _cursor = None
    /\ _insert = None
    /\ _counter = 0
    /\ log = <<>>
    /\ last = [op |-> "init", st |-> "run", width |-> 0, after |-> "-"]
    /\ n_writes = 0
    /\ n_attempted = 0
    /\ n_commits = 0
    /\ n_ddl = 0
    /\ params = None
    /\ since_commit = 0

\* lines 219-250 with any row, on a backend that accepts every statement;
\* the parameters of the INSERT are observed.
WriteData == WriteWith(Rows, {"ok"}, TRUE)

NextData == Enter \/ WriteData \/ Exit

SpecData == InitData /\ [][NextData]_vars

\* ------------------------------------------------------------ properties
Has(lg, S) == \E k \in 1..Len(lg) : lg[k] \in S

\* Position of the first event of lg that belongs to S.
Pos(lg, S) == CHOOSE k \in 1..Len(lg) : lg[k] \in S /\ \A j \in 1..(k - 1) : lg[j] \notin S

NotWarn(e) == e # "warn"

\* What the call did on the connection after executing its INSERT.
AfterInsert(lg) ==
    SelectSeq(SubSeq(lg, Pos(lg, InsertEvents) + 1, Len(lg)), NotWarn)

DdlEvents == DropEvents \cup CreateEvents

\* C1: a write whose INSERT reaches the cursor (accepted or rejected with the
\* driver's error) is followed by a commit, and by nothing else, exactly when
\* the counter after the row, and the number of rows attempted in the
\* session, is a multiple of the commit threshold.
BatchCommitCadence ==
    (last.op = "write" /\ Has(log, InsertEvents)) =>
        /\ (_counter % commit = 0) <=> (n_attempted % commit = 0)
        /\ IF n_attempted % commit = 0
           THEN Len(AfterInsert(log)) = 1 /\ AfterInsert(log)[1] \in CommitEvents
           ELSE AfterInsert(log) = <<>>

\* C1 witness: the second attempted row, driver-rejected, ends a batch of two.
BatchCommitReached ==
    /\ last.op = "write"
    /\ commit = 2
    /\ n_attempted = 2
    /\ log = <<"insert:Error", "warn", "commit:ok">>

\* C2: __exit__ closes the cursor exactly once and commits exactly once,
\* whatever the session did before.
CloseIssuesOneCloseOneCommit ==
    last.op = "exit" =>
        /\ Count(log, {"close"}) = 1
        /\ Count(log, CommitEvents) = 1
        /\ Len(log) = 2

\* C2 witness: the session is closed right after its first write failed on
\* a rejected CREATE TABLE.
ClosedAfterFailedCreate ==
    /\ last.op = "exit"
    /\ last.after = "Error"
    /\ n_writes = 1
    /\ create_table /\ ~drop_table
    /\ n_ddl = 0
    /\ n_attempted = 0

\* C3: in an open session the counter is the number of INSERTs that reached
\* the cursor (accepted or driver-rejected), a call executes at most one, a
\* write that returns has executed one, and outside a session the counter
\* is 0.
CounterCountsAttempts ==
    /\ _cursor # None => _counter = n_attempted
    /\ _cursor = None => _counter = 0
    /\ last.op = "write" => Count(log, InsertEvents) <= 1
    /\ (last.op = "write" /\ last.st = "run") => Has(log, InsertEvents)

\* C3 witness: three rows counted, the last one rejected by the driver.
ThreeRowsCounted ==
    /\ _counter = 3
    /\ n_writes = 3
    /\ Has(log, {"insert:Error"})

\* C4: once a first row is stored, a write of a row of another length raises
\* the shape error and does nothing else: no event on the cursor or the
\* connection, and the writer's state unchanged.
ShapeErrorIsolated ==
    [][(last'.op = "write" /\ _first_row # None /\ last'.width # RowLen(_first_row.val))
        => (last'.st = "TypeError" /\ log' = <<"shape:TypeError">> /\ UNCHANGED writer)]_vars

\* C5: a driver-rejected INSERT yields one warning and no exception of its
\* own, the row is counted and committed on a boundary; and the write that
\* follows it, of a row that passes the width check and binds, is executed
\* and counted.
RowErrorIsolated ==
    [][/\ (last'.op = "write" /\ Has(log', {"insert:Error"})) =>
            /\ Count(log', {"warn"}) = 1
            /\ last'.st = "run" \/ (last'.st = "Error" /\ log'[Len(log')] = "commit:Error")
            /\ _counter' = _counter + 1
            /\ (AfterInsert(log') # <<>>) <=> (_counter' % commit = 0)
       /\ (/\ last.op = "write" /\ Has(log, {"insert:Error"})
           /\ last'.op = "write"
           /\ ~Has(log', {"first", "shape:TypeError", "params:TypeError"})) =>
            /\ Has(log', InsertEvents)
            /\ _counter' = _counter + 1
      ]_vars

\* C5 witness: the third row of a session is rejected by the driver, and the
\* write returns with the row counted and a warning emitted.
RejectedRowCounted ==
    /\ last.op = "write"
    /\ last.st = "run"
    /\ log = <<"insert:Error", "warn">>
    /\ _counter = 3
    /\ commit = 2

\* C6: no second or later write of a session builds the plan again or
\* executes DDL again.
FirstRowHandledOnce ==
    [][(last'.op = "write" /\ n_writes >= 1)
        => ~Has(log', {"first", "generate", "generate:KeyError"} \cup DdlEvents)]_vars

\* C7 as stated: a closed session has committed once per full batch and once
\* at close.
CommitsAreBatchesPlusOne ==
    last.op = "exit" => n_commits = (n_attempted \div commit) + 1

\* C7 amended: a closed session has committed once per full batch, once per
\* DROP TABLE or CREATE TABLE that executed, and once at close.
CommitsAreBatchesDdlPlusOne ==
    /\ last.op = "exit" => n_commits = (n_attempted \div commit) + n_ddl + 1
    /\ _cursor # None => n_commits = (n_attempted \div commit) + n_ddl

\* C7 witness: a closed session of three rows, a threshold of two, and both
\* DROP and CREATE executed.
ClosedWithDdlCommits ==
    /\ last.op = "exit"
    /\ commit = 2
    /\ n_attempted = 3
    /\ n_ddl = 2
    /\ n_commits = 4

\* C8: the first write of a session, given an empty row, is rejected: it
\* executes nothing, commits nothing and counts nothing.
EmptyFirstRowRejected ==
    (last.op = "write" /\ n_writes = 1 /\ last.width = 0) =>
        /\ last.st # "run"
        /\ ~Has(log, DdlEvents \cup InsertEvents \cup CommitEvents)
        /\ _counter = 0

\* C9: on the first write of a session, a DROP rejected by the driver is
\* swallowed when ignore_drop_errors is set, and the call goes on to the
\* CREATE when one is requested, else to the INSERT, which is counted; when
\* the flag is not set the call ends with the driver's error at the DROP,
\* with no CREATE, no INSERT and the counter at 0.
DropFailurePolicy ==
    (last.op = "write" /\ n_writes = 1 /\ Has(log, {"drop:Error"})) =>
        LET k == Pos(log, {"drop:Error"})
        IN  IF ignore_drop_errors
            THEN /\ Len(log) > k
                 /\ IF create_table THEN log[k + 1] \in CreateEvents
                                    ELSE log[k + 1] \in InsertEvents
                 /\ (Len(log) >= k + 2 /\ log[k + 1] = "create:ok" /\ log[k + 2] = "commit:ok")
                        => (Len(log) >= k + 3 /\ log[k + 3] \in InsertEvents)
                 /\ Has(log, InsertEvents) => _counter = 1
            ELSE /\ last.st = "Error"
                 /\ Len(log) = k
                 /\ ~Has(log, CreateEvents \cup InsertEvents)
                 /\ _counter = 0

\* C9 witness: the DROP is rejected and ignored, the table is created and
\* the row inserted and counted.
DropErrorSwallowed ==
    /\ last.op = "write"
    /\ n_writes = 1
    /\ ignore_drop_errors
    /\ commit = 2
    /\ log = <<"first", "generate", "drop:Error", "create:ok", "commit:ok", "insert:ok">>
    /\ _counter = 1

\* C10: __exit__ closes the cursor before it commits, so that when the
\* final commit fails the cursor is already released and the first row,
\* the plan and the counter are already reset.
CloseBeforeFinalCommit ==
    last.op = "exit" =>
        /\ Len(log) >= 1 /\ log[1] = "close"
        /\ \A k \in 1..Len(log) : log[k] \in CommitEvents => k > 1
        /\ last.st = "Error" =>
              /\ _cursor = None
              /\ _first_row = None
              /\ _row_casts = None
              /\ _insert = None
              /\ _counter = 0

\* C10 witness: the final commit of a session that wrote rows fails.
FinalCommitFailed ==
    /\ last.op = "exit"
    /\ last.st = "Error"
    /\ log = <<"close", "commit:Error">>
    /\ n_attempted >= 1

\* ------------------------------------------------------------------ C11
\* The placeholder of column i as the claim renders it: i counts from 1.
ClaimedPlaceholder(style, i, name) ==
    CASE style = "qmark" -> <<"?">>
      [] style = "numeric" -> <<":">> \o Dec(i)
      [] style = "named" -> <<":">> \o name
      [] style = "format" -> <<"%s">>
      [] style = "pyformat" -> <<"%(">> \o name \o <<")s">>

\* The names the claim gives to the columns of a row: its own field names,
\* or field1..fieldw.
ClaimedNames(row) ==
    [i \in 1..RowLen(row) |-> IF row.named THEN <<OwnFields[i]>> ELSE <<"field">> \o Dec(i)]

\* C11 (as claimed): the INSERT built from a row of width w holds w
\* placeholders in row order, each rendered by the driver's binding style:
\* ?, :i with i counting from 1, :n_i, %s or %(n_i)s.
PlaceholdersAsClaimed ==
    (last.op = "write" /\ Has(log, {"generate"})) =>
        LET row == _first_row.val
            ph == [i \in 1..RowLen(row) |-> ClaimedPlaceholder(paramstyle, i, ClaimedNames(row)[i])]
        IN  _insert.val = <<"INSERT INTO ", "t", " VALUES (">> \o Join(ph, <<", ">>) \o <<")">>

\* ------------------------------------------------------------------ C12
\* The column types of DataIpTypes that start with INT, in any case.
IntIpTypes == { <<"i", "n", "t", "e", "g", "e", "r">>, <<"I", "N", "T">> }

\* The form the claim gives to a bound IP address.
ClaimedIpForm == IF ip_type \in IntIpTypes THEN "int" ELSE "str"

\* The value a parameter was computed from.
ValueOf(b) == b[Len(b)]

\* C12 (as claimed): in every INSERT executed, a value of an IP-address type
\* is bound as its integer form when the IP column type starts with INT, as
\* its text form otherwise, and never unchanged, whatever value the first row
\* had in that column.
IpAlwaysCoerced ==
    params # None =>
        \A k \in 1..Len(params.val) :
            ValueOf(params.val[k]) = "ip" => params.val[k] = <<ClaimedIpForm, "ip">>

\* C12 (amended): in every INSERT executed, a value of an IP-address type is
\* bound as its integer form when the IP column type starts with INT and as
\* its text form otherwise if the first row had an IP address in that column;
\* it is bound as text if the first row had a URL there, and unchanged if the
\* first row had any other value there.
IpCoercedAsFirstRow ==
    params # None =>
        \A k \in 1..Len(params.val) :
            ValueOf(params.val[k]) = "ip" =>
                /\ _first_row # None
                /\ k <= RowLen(_first_row.val)
                /\ params.val[k] =
                       CASE _first_row.val.vals[k] = "ip" -> <<ClaimedIpForm, "ip">>
                         [] _first_row.val.vals[k] = "url" -> <<"str", "ip">>
                         [] OTHER -> <<"ip">>

\* A later row's IP address is bound as an integer in a column where the
\* first row had an IP address too.
LaterIpBoundAsInteger ==
    /\ last.op = "write"
    /\ ~Has(log, {"first"})
    /\ params # None
    /\ ip_type = <<"i", "n", "t", "e", "g", "e", "r">>
    /\ \E k \in 1..Len(params.val) : params.val[k] = <<"int", "ip">>

\* ------------------------------------------------------------------ C13
\* The first write of a session was given a row holding None, whose type has
\* no entry in the type map (lines 101-115).
UnmappedFirstRow ==
    /\ last.op = "write"
    /\ n_writes = 1
    /\ _first_row # None
    /\ \E k \in 1..RowLen(_first_row.val) : _first_row.val.vals[k] = "none"

UnsupportedStyleNeverInserts ==
    (paramstyle \notin ParamStyles /\ last.op = "write") =>
        /\ last.st # "run"
        /\ ~Has(log, InsertEvents)
        /\ _counter = 0

\* ------------------------------------------------------------------ C15
\* The calls a log records on the cursor and on the connection.
IsBackendCall(e) == e \in {"drop:ok", "drop:Error", "create:ok", "create:Error"} \cup InsertEvents \cup CommitEvents

BackendCalls(lg) == SelectSeq(lg, IsBackendCall)

\* The first write of a session that drops and creates the table, every call
\* of which succeeded.
CleanFirstWrite ==
    /\ last.op = "write"
    /\ n_writes = 1
    /\ drop_table
    /\ create_table
    /\ last.st = "run"
    /\ ~Has(log, {"drop:Error", "create:Error", "insert:Error", "commit:Error"})

\* On such a write: DROP, commit, CREATE, commit, INSERT, nothing in between.
FirstWriteOrder ==
    CleanFirstWrite =>
        /\ Len(BackendCalls(log)) >= 5
        /\ SubSeq(BackendCalls(log), 1, 5) = <<"drop:ok", "commit:ok", "create:ok", "commit:ok", "insert:ok">>

\* Every DDL statement that executed is immediately followed by a commit.
DdlThenCommit ==
    last.op = "write" =>
        \A k \in 1..Len(BackendCalls(log)) :
            BackendCalls(log)[k] \in {"drop:ok", "create:ok"} =>
                /\ k < Len(BackendCalls(log))
                /\ BackendCalls(log)[k + 1] \in CommitEvents

\* A write that executes DDL is not preceded by an INSERT of the session.
NoInsertBeforeDdl ==
    (last.op = "write" /\ Has(log, {"drop:ok", "drop:Error", "create:ok", "create:Error"})) =>
        n_attempted = Count(log, InsertEvents)

\* C15 (as claimed): on a first write with dropTable and createTable and no
\* failure the calls are DROP, commit, CREATE, commit, INSERT with nothing in
\* between; every successful DDL is immediately followed by a commit; no
\* INSERT is ever executed before the requested DDL of the session.
FirstWriteEventOrder ==
    /\ FirstWriteOrder
    /\ DdlThenCommit
    /\ NoInsertBeforeDdl

\* ------------------------------------------------------------------ C16
\* C16: when the execution of CREATE TABLE fails on the first write, the
\* error leaves the call, no commit is issued for the failed DDL, the INSERT
\* is not executed and the row counter stays 0.
CreateFailureFatal ==
    (last.op = "write" /\ Has(log, {"create:Error"})) =>
        /\ last.st = "Error"
        /\ log[Len(log)] = "create:Error"
        /\ ~Has(log, InsertEvents)
        /\ Count(log, CommitEvents) = Count(log, {"drop:ok"})
        /\ n_writes = 1 => (_counter = 0 /\ n_attempted = 0)

\* The first write of a session dropped the table and failed to create it.
CreateFailedAfterDrop ==
    /\ last.op = "write"
    /\ n_writes = 1
    /\ log = <<"first", "generate", "drop:ok", "commit:ok", "create:Error">>

\* ------------------------------------------------------------------ C17
\* C17 (as claimed): the first row is marked fixed only as the last step of
\* first-row handling: after a write that failed during first-row handling
\* no first row is fixed, so the next write is handled as a first write
\* again.
FirstRowFixedLast ==
    (/\ last.op = "write"
     /\ Has(log, {"first"})
     /\ last.st # "run"
     /\ ~Has(log, InsertEvents)) => ~Truthy(_first_row)

ResetAtClose ==
    /\ last.op = "exit" =>
           (/\ _cursor = None
            /\ _first_row = None
            /\ _insert = None
            /\ _row_casts = None
            /\ _counter = 0)
    /\ (last.op = "enter" /\ last.after = "exit") =>
           (/\ _cursor # None
            /\ _first_row = None
            /\ _insert = None
            /\ _row_casts = None
            /\ _counter = 0)
    /\ (last.op = "write" /\ last.after = "exit") =>
           (/\ log[1] = "first"
            /\ _first_row # None
            /\ RowLen(_first_row.val) = last.width
            /\ _counter = Count(log, InsertEvents)
            /\ n_attempted = _counter)

\* The first write of a session opened after another one was closed creates
\* the table again and counts its row as the first.
ReopenedSessionFirstWrite ==
    /\ last.op = "write"
    /\ last.after = "exit"
    /\ Has(log, {"create:ok"})
    /\ _counter = 1
    /\ commit = 2
    /\ ~Has(SubSeq(log, Pos(log, InsertEvents), Len(log)), CommitEvents)

\* ------------------------------------------------------------------ C20
\* C20: between two write calls of an open session the number of rows
\* submitted to the cursor since connection.commit() was last called is at
\* most commit - 1; a commit covers every row submitted before it, so after a
\* commit only the rows submitted after it are counted; and when __exit__
\* returns normally its commit was the last call and leaves no row
\* uncommitted.
UncommittedWorkBounded ==
    /\ (_cursor # None /\ last.op \in {"enter", "write"}) =>
           /\ since_commit <= commit - 1
           /\ since_commit <= _counter % commit
    /\ (last.op = "write" /\ Has(log, CommitEvents)) =>
           since_commit = Count(SubSeq(log, LastPos(log, CommitEvents) + 1, Len(log)), InsertEvents)
    /\ (last.op = "exit" /\ last.st = "run") =>
           /\ since_commit = 0
           /\ log[Len(log)] = "commit:ok"

\* The rows of a batch but the last wait for the commit.
BatchAlmostFull ==
    /\ _cursor # None
    /\ last.op = "write"
    /\ commit >= 2
    /\ since_commit = commit - 1
    /\ n_attempted >= commit - 1

====
